---- MODULE Spec2Model ----
(***************************************************************************)
(* State-machine model of the Soroban contract ViryaIntegrationContract    *)
(* (src/SunereumOracle.rs): device registry, telemetry ingestion, derived  *)
(* operational / risk state, bounded hourly history, liveness monitor and  *)
(* provider allow-list.  Every contract entry point is one action; the     *)
(* ledger clock is advanced by the environment.                            *)
(***************************************************************************)
EXTENDS Integers, Sequences, FiniteSets, TLC

\* ------------------------------------------------------------------------
\* Program constants
\* ------------------------------------------------------------------------

\* const DOWNTIME_THRESHOLD: u64 = 14400
DOWNTIME_THRESHOLD == 14400

\* const PERFORMANCE_THRESHOLD: u32 = 70
PERFORMANCE_THRESHOLD == 70

\* check_device_status: "current_time - device.last_ping > 300"
OFFLINE_AFTER == 300

\* update_inverter_data: "while device.hourly_readings.len() > 24"
HOURLY_CAPACITY == 24

\* update_inverter_data: "efficiency >= 90" and "efficiency >= 75"
LOW_RISK_EFFICIENCY == 90

MEDIUM_RISK_EFFICIENCY == 75

\* Width of the f64 significand (53 bits, hidden bit included).
F64_PRECISION == 53

\* Result of a saturating "as u32" cast of a value at or above 2^31.  The
\* program saturates at u32::MAX; the model's integers are 32-bit signed, so
\* every cast result from 2^31 upwards is represented by the largest of them.
\* Only the order of the result against PERFORMANCE_THRESHOLD is ever read.
U32_SATURATED == 2147483647

\* ------------------------------------------------------------------------
\* IEEE-754 binary64 arithmetic, as used by
\*   (peak_power as f64 / device.rated_power as f64 * 100.0) as u32
\* A finite non-zero double is [kind |-> "finite", m, e]: m is the 53-bit
\* significand as a sequence of bits, most significant first, m[1] = 1, and
\* the value is (m read as a binary integer) * 2^e.
\* ------------------------------------------------------------------------

\* The w low bits of n, most significant first.
FixedBits(n, w) ==
    [i \in 1..w |-> (n \div 2^(w - i)) % 2]

\* Number of significant bits of n  (0 <= n < 2^30).
BitLength(n) ==
    CHOOSE k \in 0..30 : n < 2^k /\ (k = 0 \/ 2^(k - 1) <= n)

NatToBits(n) == FixedBits(n, BitLength(n))

\* The integer a bit sequence of at most 30 bits denotes.
RECURSIVE BitsToNat(_)
BitsToNat(b) ==
    IF Len(b) = 0 THEN 0
    ELSE IF Len(b) = 1 THEN b[1]
    ELSE LET h == Len(b) \div 2
         IN  BitsToNat(SubSeq(b, 1, h)) * 2^(Len(b) - h)
               + BitsToNat(SubSeq(b, h + 1, Len(b)))

\* Long division of the binary fraction rem / r  (0 <= rem < r < 2^30): its
\* first k bits, and the remainder left after them.
RECURSIVE LongDiv(_, _, _)
LongDiv(rem, r, k) ==
    IF k = 0 THEN [bits |-> <<>>, rem |-> rem]
    ELSE IF k = 1 THEN [bits |-> <<(2 * rem) \div r>>, rem |-> (2 * rem) % r]
    ELSE LET h  == k \div 2
             hi == LongDiv(rem, r, h)
             lo == LongDiv(hi.rem, r, k - h)
         IN  [bits |-> hi.bits \o lo.bits, rem |-> lo.rem]

\* Number of zero bits that open the binary fraction rem / r  (0 < rem < r):
\* the least z with rem * 2^(z+1) >= r.
LeadZeros(rem, r) ==
    LET c == (r + rem - 1) \div rem
    IN  CHOOSE z \in 0..29 : 2^(z + 1) >= c /\ (z = 0 \/ 2^z < c)

\* b + 1 on bit sequences (the result is one bit longer on carry-out).
IncBits(b) ==
    IF \A i \in 1..Len(b) : b[i] = 1
    THEN <<1>> \o [i \in 1..Len(b) |-> 0]
    ELSE LET j == CHOOSE i \in 1..Len(b) :
                     b[i] = 0 /\ \A l \in (i + 1)..Len(b) : b[l] = 1
         IN  [i \in 1..Len(b) |-> IF i < j THEN b[i] ELSE IF i = j THEN 1 ELSE 0]

\* Limb width, in bits, of the multi-precision product below.
LIMB == 18

\* m * 100 for a 53-bit significand m, by limbs of 18 bits with carry.
MulHundredBits(m) ==
    LET l0 == BitsToNat(SubSeq(m, Len(m) - LIMB + 1, Len(m)))
        l1 == BitsToNat(SubSeq(m, Len(m) - 2 * LIMB + 1, Len(m) - LIMB))
        l2 == BitsToNat(SubSeq(m, 1, Len(m) - 2 * LIMB))
        p0 == l0 * 100
        p1 == l1 * 100 + p0 \div 2^LIMB
        p2 == l2 * 100 + p1 \div 2^LIMB
    IN  NatToBits(p2) \o FixedBits(p1 % 2^LIMB, LIMB) \o FixedBits(p0 % 2^LIMB, LIMB)

\* Round-to-nearest, ties-to-even, of the exact value
\*   (bits read as an integer + a fraction that is non-zero iff sticky) * 2^e
\* to a 53-bit significand.  Len(bits) > 53 and bits[1] = 1.
RoundF64(bits, sticky, e) ==
    LET n     == Len(bits)
        m     == SubSeq(bits, 1, F64_PRECISION)
        guard == bits[F64_PRECISION + 1]
        rest  == sticky \/ \E i \in (F64_PRECISION + 2)..n : bits[i] = 1
        up    == guard = 1 /\ (rest \/ m[F64_PRECISION] = 1)
        m1    == IF up THEN IncBits(m) ELSE m
        e1    == e + (n - F64_PRECISION)
    IN  IF Len(m1) > F64_PRECISION
        THEN [kind |-> "finite", m |-> SubSeq(m1, 1, F64_PRECISION), e |-> e1 + 1]
        ELSE [kind |-> "finite", m |-> m1, e |-> e1]

\* (p as f64) / (r as f64) for u32 p and r: both conversions are exact, so
\* the quotient is the correctly rounded rational p / r; x / 0.0 is +inf for
\* x > 0 and 0.0 / 0.0 is NaN.
F64Div(p, r) ==
    IF r = 0 THEN (IF p = 0 THEN [kind |-> "nan"] ELSE [kind |-> "inf"])
    ELSE IF p = 0 THEN [kind |-> "zero"]
    ELSE LET ip   == NatToBits(p \div r)
             rem0 == p % r
         IN  IF ip # <<>>
             THEN LET k == F64_PRECISION + 1 - Len(ip)
                      q == LongDiv(rem0, r, k)
                  IN  RoundF64(ip \o q.bits, q.rem # 0, -k)
             ELSE LET z == LeadZeros(rem0, r)
                      k == F64_PRECISION + 1
                      q == LongDiv(LongDiv(rem0, r, z).rem, r, k)
                  IN  RoundF64(q.bits, q.rem # 0, -(z + k))

\* x * 100.0
F64MulHundred(x) ==
    IF x.kind # "finite" THEN x
    ELSE LET prod == MulHundredBits(x.m)
         IN  RoundF64(prod, FALSE, x.e)

\* x as u32: truncation toward zero, NaN to 0, saturation at the type's range.
F64ToU32(x) ==
    IF x.kind = "nan" \/ x.kind = "zero" THEN 0
    ELSE IF x.kind = "inf" THEN U32_SATURATED
    ELSE LET n == Len(x.m) + x.e
         IN  IF n <= 0 THEN 0
             ELSE IF n > 31 THEN U32_SATURATED
             ELSE BitsToNat(SubSeq(x.m, 1, n))

\* let performance_ratio = (peak_power as f64 / device.rated_power as f64 * 100.0) as u32;
performance_ratio(peak_power, rated_power) ==
    F64ToU32(F64MulHundred(F64Div(peak_power, rated_power)))

\* ------------------------------------------------------------------------
\* Input domains and bounds of the model
\* ------------------------------------------------------------------------

\* Device ids, provider / technician addresses and rated powers that callers
\* pass in Spec.
DeviceIds == {"INV001", "INV002"}

Addresses == {"P", "Q"}

RatedPowers == {7600}

\* Rated powers passed in SpecHistory: rated_power is a u32 the contract never
\* validates, so 0 is an input.
HistoryRatedPowers == {0, 7600}

\* Ledger timestamps the environment moves through: they give elapsed times
\* of exactly 300 seconds, of 14401 seconds and of 14701 seconds.
ClockInstants == {0, 300, 14701}

\* Telemetry submitted by providers: the twelve value arguments of
\* update_inverter_data.  TestReading is the reading of the contract's own
\* test (peak 6000 W, efficiency 960); ReadingInputs vary its peak_power
\* around 70 % of 7600 W (5320 W is exactly 70 %) and its efficiency around
\* the values compared in the risk computation.
TestReading ==
    [energy_produced |-> 5000, peak_power |-> 6000, dc_voltage |-> 400,
     dc_current |-> 15000, ac_voltage |-> 240, ac_frequency |-> 60000,
     internal_temp |-> 450, efficiency |-> 960, power_factor |-> 980,
     daily_yield |-> 45000, total_yield |-> 1000000, operating_hours |-> 12000]

ReadingInputs ==
    { [TestReading EXCEPT !.peak_power = pe[1], !.efficiency = pe[2]] :
        pe \in { <<6000, 800>>, <<5320, 80>>, <<5000, 960>> } }

\* Rated and peak powers swept in SpecRatio.  They hold the pairs of the
\* contract's documentation (6000 and 5000 W of 7600 W), ratios of exactly
\* 70 % (7 of 10, 14 of 20, 5320 of 7600), ratios the f64 computation
\* truncates one below the exact quotient (23 of 5, 10 and 20) and a zero
\* divisor.
RatioRatedPowers == {0, 3, 7, 10, 20, 7600}

RatioPeakPowers == (0..24) \cup {5000, 5319, 5320, 6000}

RatioReadings == { [TestReading EXCEPT !.peak_power = p] : p \in RatioPeakPowers }

\* Most accepted readings, all devices together, in Spec; most accepted
\* readings of the one device of SpecHistory.
MaxReadings == 2

MaxHistoryReadings == 26

\* Most entries of the provider allow-list and of the maintenance log.
MaxProviders == 1

MaxMaintenance == 1

\* Arguments of the InsuranceContract's entry points in SpecPolicy: the
\* policy of the contract's test (premium 1000, coverage 10000, a claim of
\* 5000), a smaller coverage, and claims of exactly the coverage and of one
\* more.  PolicyIds are the strings generate_policy_id can return and callers
\* can pass.
PolicyIds == {"POL-A", "POL-B"}

PolicyHolders == {"H"}

Premiums == {1000}

CoverageAmounts == {4000, 10000}

ClaimAmounts == {5000, 10000, 10001}

RiskLevels == {"LOW", "MEDIUM", "HIGH"}

\* Most policies created since the last initialize.
MaxPolicies == 2

\* ------------------------------------------------------------------------
\* State
\* ------------------------------------------------------------------------

VARIABLES devices, authorized, maintenance, now, last, accepted, policies, policy_risk_level, policy_call, paid

\* devices     instance storage DEVICES: Map<String, Inverter>
\* authorized  instance storage AUTH_PROVIDERS: Vec<Address>
\* maintenance instance storage MAINTENANCE: Vec<MaintenanceRecord>
\* now         env.ledger().timestamp()
\* last        the most recent invocation: entry point, the arguments that
\*             select the record, the Result returned (result is OK or the
\*             error string, value the Ok payload), and the addressed
\*             device's online_status as it was before the call
\* accepted    per device id, every reading update_inverter_data has stored
\*             since the device was registered, oldest first (history variable)
\*
\* State of the InsuranceContract, a contract instance of its own:
\* policies           instance storage POLICIES: Vec<InsurancePolicy>
\* policy_risk_level  instance storage RISK_LEVEL: String, NO_RISK_LEVEL while
\*                    nothing has been stored under the key
\* policy_call        the most recent call of the InsuranceContract: entry
\*                    point, arguments and value returned
\* paid               for each element of policies, how many calls of
\*                    file_claim have returned true on it (history variable)
vars == <<devices, authorized, maintenance, now, last, accepted, policies, policy_risk_level, policy_call, paid>>

oracle_vars == <<devices, authorized, maintenance, now, last, accepted>>

policy_vars == <<policies, policy_risk_level, policy_call, paid>>

persisted == <<devices, authorized, maintenance>>

\* Result<_, String> values.
OK == "Ok"

ERR_REGISTERED == "Device already registered"

ERR_UNAUTHORIZED == "Unauthorized provider"

ERR_NOT_FOUND == "Device not found"

NO_DEVICE == "-"

NO_ADDRESS == "-"

\* The Ok payload of an entry point that returns Ok(()), and the payload
\* recorded with an Err.
UNIT == "()"

\* ------------------------------------------------------------------------
\* Pure parts of the entry points
\* ------------------------------------------------------------------------

\* register_inverter: empty_reading
EmptyReading(timestamp) ==
    [timestamp |-> timestamp, energy_produced |-> 0, peak_power |-> 0,
     dc_voltage |-> 0, dc_current |-> 0, ac_voltage |-> 0, ac_frequency |-> 0,
     internal_temp |-> 0, efficiency |-> 0, power_factor |-> 0,
     daily_yield |-> 0, total_yield |-> 0, operating_hours |-> 0]

\* The device record with its last_ping left at the epoch.
NewInverter_epoch(device_id, policy_id, manufacturer, model, rated_power, timestamp) ==
    [device_id |-> device_id, policy_id |-> policy_id,
     last_ping |-> 0, operational_status |-> TRUE,
     online_status |-> TRUE, risk_level |-> "LOW", device_type |-> "INVERTER",
     manufacturer |-> manufacturer, model |-> model,
     rated_power |-> rated_power, last_reading |-> EmptyReading(timestamp),
     hourly_readings |-> <<>>]

\* register_inverter: device
NewInverter(device_id, policy_id, manufacturer, model, rated_power, timestamp) ==
    [device_id |-> device_id, policy_id |-> policy_id,
     last_ping |-> timestamp, operational_status |-> TRUE,
     online_status |-> TRUE, risk_level |-> "LOW", device_type |-> "INVERTER",
     manufacturer |-> manufacturer, model |-> model,
     rated_power |-> rated_power, last_reading |-> EmptyReading(timestamp),
     hourly_readings |-> <<>>]

\* devices.contains_key(&device_id)
contains_key(devs, device_id) == device_id \in DOMAIN devs

\* devices.set(device_id, device)
MapSet(devs, device_id, device) ==
    [k \in DOMAIN devs \cup {device_id} |->
        IF k = device_id THEN device ELSE devs[k]]

\* authorized.contains(&auth_provider)
is_authorized(auths, provider) == \E i \in 1..Len(auths) : auths[i] = provider

\* The reading with its energy_produced argument dropped.
NewReading_without_energy(fields, timestamp) ==
    [timestamp |-> timestamp, energy_produced |-> 0,
     peak_power |-> fields.peak_power, dc_voltage |-> fields.dc_voltage,
     dc_current |-> fields.dc_current, ac_voltage |-> fields.ac_voltage,
     ac_frequency |-> fields.ac_frequency,
     internal_temp |-> fields.internal_temp, efficiency |-> fields.efficiency,
     power_factor |-> fields.power_factor, daily_yield |-> fields.daily_yield,
     total_yield |-> fields.total_yield,
     operating_hours |-> fields.operating_hours]

\* update_inverter_data: new_reading
NewReading(fields, timestamp) ==
    [timestamp |-> timestamp, energy_produced |-> fields.energy_produced,
     peak_power |-> fields.peak_power, dc_voltage |-> fields.dc_voltage,
     dc_current |-> fields.dc_current, ac_voltage |-> fields.ac_voltage,
     ac_frequency |-> fields.ac_frequency,
     internal_temp |-> fields.internal_temp, efficiency |-> fields.efficiency,
     power_factor |-> fields.power_factor, daily_yield |-> fields.daily_yield,
     total_yield |-> fields.total_yield,
     operating_hours |-> fields.operating_hours]

\* register_inverter without its duplicate check.
register_outcome_unchecked(devs, device_id) == OK

\* register_inverter: the duplicate check.
register_outcome(devs, device_id) ==
    IF contains_key(devs, device_id) THEN ERR_REGISTERED ELSE OK

\* update_inverter_data looking the device up before checking the provider.
update_outcome_lookup_first(auths, devs, device_id, provider) ==
    IF ~contains_key(devs, device_id) THEN ERR_NOT_FOUND
    ELSE IF is_authorized(auths, provider) THEN OK
    ELSE ERR_UNAUTHORIZED

\* update_inverter_data: the order of its two checks.
update_outcome(auths, devs, device_id, provider) ==
    IF ~is_authorized(auths, provider) THEN ERR_UNAUTHORIZED
    ELSE IF contains_key(devs, device_id) THEN OK
    ELSE ERR_NOT_FOUND

\* The update of the connectivity fields with the online_status assignment
\* left out.
touch_keeping_online(device, timestamp) ==
    [device EXCEPT !.last_ping = timestamp]

\* The update of the connectivity fields with the last_ping assignment left out.
touch_without_ping(device, timestamp) ==
    [device EXCEPT !.online_status = TRUE]

\* device.online_status = true; device.last_ping = env.ledger().timestamp();
touch(device, timestamp) ==
    [device EXCEPT !.online_status = TRUE, !.last_ping = timestamp]

\* performance_ratio over the peak and rated powers of the input domains,
\* evaluated once.
PerformanceRatios ==
    [p \in {f.peak_power : f \in ReadingInputs \cup RatioReadings \cup {TestReading}}, r \in RatedPowers \cup HistoryRatedPowers \cup RatioRatedPowers |->
        performance_ratio(p, r)]

\* The operational test with a strict comparison.
is_operational_strict(peak_power, rated_power) ==
    PerformanceRatios[peak_power, rated_power] > PERFORMANCE_THRESHOLD

\* device.operational_status = performance_ratio >= PERFORMANCE_THRESHOLD;
is_operational(peak_power, rated_power) ==
    PerformanceRatios[peak_power, rated_power] >= PERFORMANCE_THRESHOLD

\* The risk computation looking at the efficiency only.
risk_level_efficiency_only(operational_status, efficiency) ==
    IF efficiency >= LOW_RISK_EFFICIENCY THEN "LOW"
    ELSE IF efficiency >= MEDIUM_RISK_EFFICIENCY THEN "MEDIUM"
    ELSE "HIGH"

\* device.risk_level = if ... { "LOW" } else if ... { "MEDIUM" } else { "HIGH" }
risk_level(operational_status, efficiency) ==
    IF operational_status /\ efficiency >= LOW_RISK_EFFICIENCY THEN "LOW"
    ELSE IF operational_status /\ efficiency >= MEDIUM_RISK_EFFICIENCY THEN "MEDIUM"
    ELSE "HIGH"

\* The eviction loop with its bound off by one.
RECURSIVE keep_last_hours_late(_)
keep_last_hours_late(readings) ==
    IF Len(readings) > HOURLY_CAPACITY + 1 THEN keep_last_hours_late(Tail(readings))
    ELSE readings

\* The eviction loop removing at the back instead of the front.
RECURSIVE keep_first_hours(_)
keep_first_hours(readings) ==
    IF Len(readings) > HOURLY_CAPACITY
    THEN keep_first_hours(SubSeq(readings, 1, Len(readings) - 1))
    ELSE readings

\* while device.hourly_readings.len() > 24 { device.hourly_readings.remove(0); }
RECURSIVE keep_last_hours(_)
keep_last_hours(readings) ==
    IF Len(readings) > HOURLY_CAPACITY THEN keep_last_hours(Tail(readings))
    ELSE readings

\* Storing the reading in the history only.
store_reading_history_only(device, new_reading) ==
    [device EXCEPT !.hourly_readings = keep_last_hours(Append(@, new_reading))]

\* device.last_reading = new_reading.clone();
\* device.hourly_readings.push_back(new_reading);  and the eviction loop
store_reading(device, new_reading) ==
    [device EXCEPT !.last_reading = new_reading,
                   !.hourly_readings = keep_last_hours(Append(@, new_reading))]

\* The device record update_inverter_data writes back.
updated_device(device, fields, timestamp) ==
    LET touched     == touch(device, timestamp)
        operational == is_operational(fields.peak_power, device.rated_power)
        assessed    == [touched EXCEPT
                          !.operational_status = operational,
                          !.risk_level = risk_level(operational, fields.efficiency)]
    IN  store_reading(assessed, NewReading(fields, timestamp))

\* Ok(!device.operational_status &&
\*    (env.ledger().timestamp() - device.last_ping) > DOWNTIME_THRESHOLD)
claim_suggested(device, timestamp) ==
    ~device.operational_status /\ (timestamp - device.last_ping) > DOWNTIME_THRESHOLD

\* The staleness test with an inclusive comparison.
is_stale_inclusive(device, current_time) ==
    current_time - device.last_ping >= OFFLINE_AFTER

\* check_device_status: current_time - device.last_ping > 300
is_stale(device, current_time) == current_time - device.last_ping > OFFLINE_AFTER

\* A check that also stamps last_ping when it finds the device stale.
checked_device_pinging(device, current_time) ==
    IF is_stale(device, current_time)
    THEN [device EXCEPT !.online_status = FALSE, !.last_ping = current_time]
    ELSE device

\* A check that flips the connectivity flag of a stale device.
checked_device_flipping(device, current_time) ==
    IF is_stale(device, current_time)
    THEN [device EXCEPT !.online_status = ~@]
    ELSE device

\* check_device_status: the record after the check.
checked_device(device, current_time) ==
    IF is_stale(device, current_time)
    THEN [device EXCEPT !.online_status = FALSE]
    ELSE device

\* add_maintenance_record: record
NewMaintenanceRecord(report_hash, technician, maintenance_type, issues_found, parts_replaced, timestamp) ==
    [timestamp |-> timestamp, report_hash |-> report_hash,
     technician |-> technician, status |-> "COMPLETED",
     maintenance_type |-> maintenance_type, issues_found |-> issues_found,
     parts_replaced |-> parts_replaced]

\* What `last` records of the addressed device before the call.
PriorOnline(device_id) ==
    contains_key(devices, device_id) /\ devices[device_id].online_status

Invocation(op, device_id, provider, result, value) ==
    [op |-> op, device_id |-> device_id, provider |-> provider,
     result |-> result, value |-> value,
     prior_online |-> device_id # NO_DEVICE /\ PriorOnline(device_id)]

\* ------------------------------------------------------------------------
\* Pure parts of the InsuranceContract's entry points
\* ------------------------------------------------------------------------

\* storage().instance().get(&RISK_LEVEL) while the key holds nothing.
NO_RISK_LEVEL == "None"

\* Option::None of get_policy and of position.
NO_POLICY == "None"

NOT_FOUND == 0

\* get_risk_level's unwrap() of None: the invocation traps.
PANIC == "panic"

\* create_policy: policy
NewInsurancePolicy(policy_id, policy_holder, premium, coverage_amount) ==
    [policy_id |-> policy_id, policy_holder |-> policy_holder,
     premium |-> premium, coverage_amount |-> coverage_amount,
     is_active |-> TRUE]

\* generate_policy_id: any of the strings the random bytes can give.
generate_policy_id == PolicyIds

\* policies.iter().position(|p| p.policy_id == policy_id), counted from 1;
\* NOT_FOUND for None.
position(pols, policy_id) ==
    IF \E i \in 1..Len(pols) : pols[i].policy_id = policy_id
    THEN CHOOSE i \in 1..Len(pols) :
            /\ pols[i].policy_id = policy_id
            /\ \A j \in 1..(i - 1) : pols[j].policy_id # policy_id
    ELSE NOT_FOUND

\* policies.iter().find(|p| p.policy_id == policy_id).cloned()
find(pols, policy_id) ==
    IF position(pols, policy_id) = NOT_FOUND THEN NO_POLICY
    ELSE pols[position(pols, policy_id)]

\* The test of file_claim without its is_active operand.
claim_payable_inactive_too(policy, claim_amount) ==
    claim_amount <= policy.coverage_amount

\* file_claim: policy.is_active && claim_amount <= policy.coverage_amount
claim_payable(policy, claim_amount) ==
    policy.is_active /\ claim_amount <= policy.coverage_amount

\* file_claim: policy.is_active = false; policies.set(index, policy);
deactivated(pols, index) == [pols EXCEPT ![index].is_active = FALSE]

PolicyCall(op, policy_id, claim_amount, returned) ==
    [op |-> op, policy_id |-> policy_id, claim_amount |-> claim_amount,
     returned |-> returned]

NoPolicyCall == PolicyCall("deploy", NO_POLICY, 0, UNIT)

\* ------------------------------------------------------------------------
\* Initial state and entry points
\* ------------------------------------------------------------------------

NoReadings == [d \in DeviceIds |-> <<>>]

\* Number of readings accepted so far for the devices of ids.
RECURSIVE AcceptedCount(_)
AcceptedCount(ids) ==
    IF ids = {} THEN 0
    ELSE LET d == CHOOSE x \in ids : TRUE
         IN  Len(accepted[d]) + AcceptedCount(ids \ {d})

\* Storage before any call: every get(..) falls back to an empty Map / Vec.
Init ==
    /\ devices = <<>>
    /\ authorized = <<>>
    /\ maintenance = <<>>
    /\ now = 0
    /\ accepted = NoReadings
    /\ last = [op |-> "deploy", device_id |-> NO_DEVICE, provider |-> NO_ADDRESS,
               result |-> OK, value |-> UNIT, prior_online |-> FALSE]
    /\ policies = <<>>
    /\ policy_risk_level = NO_RISK_LEVEL
    /\ policy_call = NoPolicyCall
    /\ paid = <<>>

initialize ==
    /\ devices' = <<>>
    /\ maintenance' = <<>>
    /\ authorized' = <<>>
    /\ accepted' = NoReadings
    /\ last' = Invocation("initialize", NO_DEVICE, NO_ADDRESS, OK, UNIT)
    /\ UNCHANGED now
    /\ UNCHANGED policy_vars

register_inverter(device_id, policy_id, manufacturer, model, rated_power) ==
    LET outcome == register_outcome(devices, device_id)
    IN  /\ IF outcome = OK
           THEN devices' = MapSet(devices, device_id,
                                  NewInverter(device_id, policy_id, manufacturer,
                                              model, rated_power, now))
           ELSE UNCHANGED devices
        /\ last' = Invocation("register_inverter", device_id, NO_ADDRESS, outcome, UNIT)
        /\ UNCHANGED <<authorized, maintenance, now, accepted>>
        /\ UNCHANGED policy_vars

update_inverter_data(device_id, auth_provider, fields) ==
    LET outcome == update_outcome(authorized, devices, device_id, auth_provider)
    IN  /\ IF outcome = OK
           THEN LET device == updated_device(devices[device_id], fields, now)
                IN  /\ devices' = MapSet(devices, device_id, device)
                    /\ accepted' = [accepted EXCEPT
                                      ![device_id] = Append(@, NewReading(fields, now))]
                    /\ last' = Invocation("update_inverter_data", device_id,
                                          auth_provider, OK,
                                          claim_suggested(device, now))
           ELSE /\ UNCHANGED <<devices, accepted>>
                /\ last' = Invocation("update_inverter_data", device_id,
                                      auth_provider, outcome, UNIT)
        /\ UNCHANGED <<authorized, maintenance, now>>
        /\ UNCHANGED policy_vars

\* A check that leaves a default record behind for an unknown device id.
check_device_status_creating(device_id) ==
    /\ IF contains_key(devices, device_id)
       THEN /\ devices' = MapSet(devices, device_id,
                                 checked_device(devices[device_id], now))
            /\ last' = Invocation("check_device_status", device_id, NO_ADDRESS, OK, UNIT)
       ELSE /\ devices' = MapSet(devices, device_id,
                                 NewInverter(device_id, "", "", "", 0, now))
            /\ last' = Invocation("check_device_status", device_id, NO_ADDRESS,
                                  ERR_NOT_FOUND, UNIT)
    /\ UNCHANGED <<authorized, maintenance, now, accepted>>
    /\ UNCHANGED policy_vars

check_device_status(device_id) ==
    /\ IF contains_key(devices, device_id)
       THEN /\ devices' = MapSet(devices, device_id,
                                 checked_device(devices[device_id], now))
            /\ last' = Invocation("check_device_status", device_id, NO_ADDRESS, OK, UNIT)
       ELSE /\ UNCHANGED devices
            /\ last' = Invocation("check_device_status", device_id, NO_ADDRESS,
                                  ERR_NOT_FOUND, UNIT)
    /\ UNCHANGED <<authorized, maintenance, now, accepted>>
    /\ UNCHANGED policy_vars

get_hourly_performance(device_id) ==
    /\ last' = IF contains_key(devices, device_id)
               THEN Invocation("get_hourly_performance", device_id, NO_ADDRESS, OK,
                               devices[device_id].hourly_readings)
               ELSE Invocation("get_hourly_performance", device_id, NO_ADDRESS,
                               ERR_NOT_FOUND, UNIT)
    /\ UNCHANGED <<devices, authorized, maintenance, now, accepted>>
    /\ UNCHANGED policy_vars

add_maintenance_record(device_id, report_hash, technician, maintenance_type, issues_found, parts_replaced) ==
    /\ IF ~contains_key(devices, device_id)
       THEN /\ UNCHANGED maintenance
            /\ last' = Invocation("add_maintenance_record", device_id, technician,
                                  ERR_NOT_FOUND, UNIT)
       ELSE /\ maintenance' = Append(maintenance,
                                     NewMaintenanceRecord(report_hash, technician,
                                                          maintenance_type, issues_found,
                                                          parts_replaced, now))
            /\ last' = Invocation("add_maintenance_record", device_id, technician,
                                  OK, UNIT)
    /\ UNCHANGED <<devices, authorized, now, accepted>>
    /\ UNCHANGED policy_vars

get_device_status(device_id) ==
    /\ last' = IF contains_key(devices, device_id)
               THEN Invocation("get_device_status", device_id, NO_ADDRESS, OK,
                               devices[device_id])
               ELSE Invocation("get_device_status", device_id, NO_ADDRESS,
                               ERR_NOT_FOUND, UNIT)
    /\ UNCHANGED <<devices, authorized, maintenance, now, accepted>>
    /\ UNCHANGED policy_vars

authorize_provider(provider) ==
    /\ authorized' = Append(authorized, provider)
    /\ last' = Invocation("authorize_provider", NO_DEVICE, provider, OK, UNIT)
    /\ UNCHANGED <<devices, maintenance, now, accepted>>
    /\ UNCHANGED policy_vars

\* The ledger closes: env.ledger().timestamp() moves on to a later instant.
advance_ledger(timestamp) ==
    /\ timestamp > now
    /\ now' = timestamp
    /\ last' = Invocation("advance_ledger", NO_DEVICE, NO_ADDRESS, OK, UNIT)
    /\ UNCHANGED <<devices, authorized, maintenance, accepted>>
    /\ UNCHANGED policy_vars

\* InsuranceContract::initialize
InsuranceContract_initialize ==
    /\ policies' = <<>>
    /\ policy_risk_level' = "LOW"
    /\ paid' = <<>>
    /\ policy_call' = PolicyCall("initialize", NO_POLICY, 0, UNIT)
    /\ UNCHANGED oracle_vars

create_policy(policy_holder, premium, coverage_amount) ==
    \E policy_id \in generate_policy_id :
        /\ policies' = Append(policies,
                              NewInsurancePolicy(policy_id, policy_holder,
                                                 premium, coverage_amount))
        /\ paid' = Append(paid, 0)
        /\ policy_call' = PolicyCall("create_policy", NO_POLICY, 0, policy_id)
        /\ UNCHANGED policy_risk_level
        /\ UNCHANGED oracle_vars

get_policy(policy_id) ==
    /\ policy_call' = PolicyCall("get_policy", policy_id, 0, find(policies, policy_id))
    /\ UNCHANGED <<policies, policy_risk_level, paid>>
    /\ UNCHANGED oracle_vars

update_risk_level(new_risk_level) ==
    /\ policy_risk_level' = new_risk_level
    /\ policy_call' = PolicyCall("update_risk_level", NO_POLICY, 0, UNIT)
    /\ UNCHANGED <<policies, paid>>
    /\ UNCHANGED oracle_vars

get_risk_level ==
    /\ policy_call' = PolicyCall("get_risk_level", NO_POLICY, 0,
                                 IF policy_risk_level = NO_RISK_LEVEL THEN PANIC
                                 ELSE policy_risk_level)
    /\ UNCHANGED <<policies, policy_risk_level, paid>>
    /\ UNCHANGED oracle_vars

file_claim(policy_id, claim_amount) ==
    LET index == position(policies, policy_id)
    IN  /\ IF index # NOT_FOUND /\ claim_payable(policies[index], claim_amount)
           THEN /\ policies' = deactivated(policies, index)
                /\ paid' = [paid EXCEPT ![index] = @ + 1]
                /\ policy_call' = PolicyCall("file_claim", policy_id, claim_amount, TRUE)
           ELSE /\ UNCHANGED <<policies, paid>>
                /\ policy_call' = PolicyCall("file_claim", policy_id, claim_amount, FALSE)
        /\ UNCHANGED policy_risk_level
        /\ UNCHANGED oracle_vars

\* ------------------------------------------------------------------------
\* Specifications
\* ------------------------------------------------------------------------

\* The registry, telemetry and liveness entry points: any caller, any
\* argument of the input domains, at any time.  The maintenance log, which
\* none of them reads or writes, is exercised in SpecHistory.
Next ==
    \/ initialize
    \/ \E d \in DeviceIds, r \in RatedPowers :
          register_inverter(d, "POL001", "SolarEdge", "SE7600H", r)
    \/ \E d \in DeviceIds, a \in Addresses, f \in ReadingInputs :
          /\ AcceptedCount(DeviceIds) < MaxReadings
          /\ update_inverter_data(d, a, f)
    \/ \E d \in DeviceIds : check_device_status(d)
    \/ \E d \in DeviceIds : get_hourly_performance(d)
    \/ \E d \in DeviceIds : get_device_status(d)
    \/ \E a \in Addresses :
          /\ Len(authorized) < MaxProviders
          /\ authorize_provider(a)
    \/ \E t \in ClockInstants : advance_ledger(t)

Spec == Init /\ [][Next]_vars

\* Every entry point, on one device fed the test reading by one provider for
\* more than a full history window, at the instants HistoryInstants.
HistoryInstants == {0, 14701}


NextHistory ==
    \/ initialize
    \/ \E r \in HistoryRatedPowers :
          register_inverter("INV001", "POL001", "SolarEdge", "SE7600H", r)
    \/ /\ Len(accepted["INV001"]) < MaxHistoryReadings
       /\ update_inverter_data("INV001", "P", TestReading)
    \/ check_device_status("INV001")
    \/ get_hourly_performance("INV001")
    \/ /\ Len(maintenance) < MaxMaintenance
       /\ add_maintenance_record("INV001", "HASH1", "P", "SCHEDULED", <<>>, <<>>)
    \/ get_device_status("INV001")
    \/ /\ Len(authorized) < MaxProviders
       /\ authorize_provider("P")
    \/ \E t \in HistoryInstants : advance_ledger(t)

SpecHistory == Init /\ [][NextHistory]_vars

\* One device of any swept rated power, fed readings of any swept peak power.
NextRatio ==
    \/ \E r \in RatioRatedPowers :
          register_inverter("INV001", "POL001", "SolarEdge", "SE7600H", r)
    \/ /\ Len(authorized) < MaxProviders
       /\ authorize_provider("P")
    \/ \E f \in RatioReadings :
          /\ Len(accepted["INV001"]) < MaxReadings
          /\ update_inverter_data("INV001", "P", f)

SpecRatio == Init /\ [][NextRatio]_vars

\* The entry points of the InsuranceContract: any caller, any argument of
\* the input domains.
NextPolicy ==
    \/ InsuranceContract_initialize
    \/ \E h \in PolicyHolders, p \in Premiums, c \in CoverageAmounts :
          /\ Len(policies) < MaxPolicies
          /\ create_policy(h, p, c)
    \/ \E id \in PolicyIds : get_policy(id)
    \/ \E r \in RiskLevels : update_risk_level(r)
    \/ get_risk_level
    \/ \E id \in PolicyIds, a \in ClaimAmounts : file_claim(id, a)

SpecPolicy == Init /\ [][NextPolicy]_vars

\* ------------------------------------------------------------------------
\* Properties
\* ------------------------------------------------------------------------

Registered == DOMAIN devices

\* The most recent n elements of seq, oldest first.
Newest(seq, n) ==
    IF Len(seq) <= n THEN seq ELSE SubSeq(seq, Len(seq) - n + 1, Len(seq))

\* C1: in every reachable state every registered device's history holds at
\* most 24 readings.
C1_HistoryAtMost24 ==
    \A d \in Registered : Len(devices[d].hourly_readings) <= 24

\* A device holds a full history after more than 24 accepted readings.
C1_Witness ==
    \E d \in Registered :
        /\ Len(accepted[d]) > 24
        /\ Len(devices[d].hourly_readings) = 24

\* C2: after n accepted readings a device's history is exactly the most
\* recent min(n, 24) accepted readings, oldest first, and that is what
\* get_hourly_performance returns.
C2_HistoryIsNewest24 ==
    /\ \A d \in Registered : devices[d].hourly_readings = Newest(accepted[d], 24)
    /\ (last.op = "get_hourly_performance" /\ last.result = OK)
          => last.value = Newest(accepted[last.device_id], 24)

\* The 25th accepted reading has evicted the first, which differed from the
\* second, and the history is read back.
C2_Witness ==
    /\ last.op = "get_hourly_performance"
    /\ last.result = OK
    /\ Len(accepted[last.device_id]) = 25
    /\ accepted[last.device_id][1] # accepted[last.device_id][2]
    /\ last.value[1] = accepted[last.device_id][2]
    /\ Len(last.value) = 24

\* C3: register_inverter for a device id already present fails with "Device
\* already registered" and leaves devices, provider list and maintenance log
\* as they were.
C3_DuplicateRegisterRejected ==
    [][ (last'.op = "register_inverter" /\ last'.device_id \in Registered)
           => /\ last'.result = ERR_REGISTERED
              /\ persisted' = persisted ]_vars

\* A duplicate registration was rejected for a device that has a reading and
\* a later clock than at its registration, with a second device present.
C3_Witness ==
    /\ last.op = "register_inverter"
    /\ last.result = ERR_REGISTERED
    /\ Cardinality(Registered) = 2
    /\ Len(devices[last.device_id].hourly_readings) > 0
    /\ now > devices[last.device_id].last_ping

\* C4: update_inverter_data by a provider that is not in the allow-list fails
\* with "Unauthorized provider", for registered and unregistered device ids
\* alike, and leaves devices, provider list and maintenance log as they were.
C4_UnauthorizedRejected ==
    [][ (last'.op = "update_inverter_data"
            /\ ~is_authorized(authorized, last'.provider))
           => /\ last'.result = ERR_UNAUTHORIZED
              /\ persisted' = persisted ]_vars

\* An unauthorized provider was rejected for an unregistered device id while
\* another provider is authorized and another device is registered.
C4_Witness ==
    /\ last.op = "update_inverter_data"
    /\ last.result = ERR_UNAUTHORIZED
    /\ last.device_id \notin Registered
    /\ Registered # {}
    /\ authorized # <<>>
    /\ ~is_authorized(authorized, last.provider)

\* C5: a device with rated_power > 0 that has accepted a reading is
\* operational exactly when peak_power * 100 / rated_power of its latest
\* reading, truncated to an integer, is at least 70 (so 6000 of 7600 W is
\* operational and 5000 of 7600 W is not), whatever it accepted before.
\* The right-hand side is exact integer arithmetic; the model's left-hand
\* side goes through the f64 division, product and cast of the code.
C5_OperationalIffRatioAtLeast70 ==
    \A d \in Registered :
        (Len(accepted[d]) >= 1 /\ devices[d].rated_power > 0)
           => (devices[d].operational_status
                 <=> (devices[d].last_reading.peak_power * 100)
                        \div devices[d].rated_power >= 70)

\* A 7600 W device that was operational on 6000 W is not on a later 5000 W.
C5_Witness ==
    \E d \in Registered :
        /\ devices[d].rated_power = 7600
        /\ Len(accepted[d]) = 2
        /\ accepted[d][1].peak_power = 6000
        /\ devices[d].last_reading.peak_power = 5000
        /\ ~devices[d].operational_status

\* C6: after an accepted reading the risk level is LOW for an operational
\* device with efficiency of at least 90 %, MEDIUM for an operational device
\* with efficiency of at least 75 % and HIGH otherwise, the efficiency field
\* being in tenths of a percent (96 % is 960).
C6_RiskFollowsEfficiencyPercent ==
    \A d \in Registered :
        Len(accepted[d]) >= 1
           => devices[d].risk_level =
                 IF devices[d].operational_status
                      /\ devices[d].last_reading.efficiency >= 900 THEN "LOW"
                 ELSE IF devices[d].operational_status
                      /\ devices[d].last_reading.efficiency >= 750 THEN "MEDIUM"
                 ELSE "HIGH"

\* C7: check_device_status on a registered device returns Ok, clears
\* online_status exactly when now - last_ping > 300 and changes nothing
\* else: no other field, no other device, no provider, no maintenance record.
C7_CheckOnlyClearsOnlineWhenStale ==
    [][ \A d \in DeviceIds :
          (last'.op = "check_device_status" /\ last'.device_id = d /\ d \in Registered)
             => /\ last'.result = OK
                /\ authorized' = authorized
                /\ maintenance' = maintenance
                /\ now' = now
                /\ now - devices[d].last_ping > 300
                      => devices' = [devices EXCEPT ![d].online_status = FALSE]
                /\ now - devices[d].last_ping <= 300
                      => devices' = devices ]_vars

\* A check found an online device stale and marked it offline.
C7_Witness ==
    /\ last.op = "check_device_status"
    /\ last.device_id \in Registered
    /\ last.prior_online
    /\ ~devices[last.device_id].online_status
    /\ now - devices[last.device_id].last_ping > 300

C9_NeverSuggestsClaim ==
    (last.op = "update_inverter_data" /\ last.result = OK) => last.value = FALSE

\* A reading that leaves the device not operational was accepted more than
\* 14400 seconds after the device's previous reading, and returned Ok(false).
C9_Witness ==
    /\ last.op = "update_inverter_data"
    /\ last.result = OK
    /\ last.value = FALSE
    /\ ~devices[last.device_id].operational_status
    /\ Len(accepted[last.device_id]) = 2
    /\ now - accepted[last.device_id][1].timestamp > 14400

\* C10: a device that has accepted a reading has its latest reading as the
\* last element of its history; a device that has accepted none has an empty
\* history and the all-zero reading stamped with its registration time.
C10_LatestIsLastOfHistory ==
    \A d \in Registered :
        /\ Len(accepted[d]) >= 1
              => /\ devices[d].hourly_readings # <<>>
                 /\ devices[d].last_reading =
                       devices[d].hourly_readings[Len(devices[d].hourly_readings)]
        /\ Len(accepted[d]) = 0
              => /\ devices[d].hourly_readings = <<>>
                 /\ devices[d].last_reading = EmptyReading(devices[d].last_ping)

\* After an eviction the latest reading is still the last of the history
\* and is newer than the oldest kept.
C10_Witness ==
    \E d \in Registered :
        /\ Len(accepted[d]) > 24
        /\ devices[d].last_reading = devices[d].hourly_readings[24]
        /\ devices[d].last_reading.timestamp > devices[d].hourly_readings[1].timestamp

\* C11: register_inverter for a device id not yet present returns Ok
\* whatever the allow-list holds, and adds exactly one device: online,
\* operational, risk LOW, empty history, last_ping = now and an all-zero
\* last reading stamped now; every other device and the provider list stay
\* as they were.
C11_RegisterCreatesFreshDevice ==
    [][ \A d \in DeviceIds :
          (last'.op = "register_inverter" /\ last'.device_id = d /\ d \notin Registered)
             => /\ last'.result = OK
                /\ DOMAIN devices' = Registered \cup {d}
                /\ devices'[d].device_id = d
                /\ devices'[d].online_status
                /\ devices'[d].operational_status
                /\ devices'[d].risk_level = "LOW"
                /\ devices'[d].hourly_readings = <<>>
                /\ devices'[d].last_ping = now
                /\ devices'[d].last_reading =
                      [timestamp |-> now, energy_produced |-> 0, peak_power |-> 0,
                       dc_voltage |-> 0, dc_current |-> 0, ac_voltage |-> 0,
                       ac_frequency |-> 0, internal_temp |-> 0, efficiency |-> 0,
                       power_factor |-> 0, daily_yield |-> 0, total_yield |-> 0,
                       operating_hours |-> 0]
                /\ \A o \in Registered : devices'[o] = devices[o]
                /\ authorized' = authorized ]_vars

\* A second device was registered after the clock had moved on, with no
\* provider on the allow-list.
C11_Witness ==
    /\ last.op = "register_inverter"
    /\ last.result = OK
    /\ authorized = <<>>
    /\ Cardinality(Registered) = 2
    /\ devices[last.device_id].last_ping = now
    /\ now > 0
    /\ \E o \in Registered : devices[o].last_ping < now

\* C12: after an accepted reading the device is online, its last_ping is the
\* current time and its latest reading carries the submitted values and the
\* current timestamp, whether or not the device was online before.
C12_AcceptedReadingRevives ==
    (last.op = "update_inverter_data" /\ last.result = OK)
       => LET device == devices[last.device_id]
              log    == accepted[last.device_id]
          IN  /\ device.online_status
              /\ device.last_ping = now
              /\ device.last_reading.timestamp = now
              /\ device.last_reading.energy_produced = TestReading.energy_produced
              /\ \E f \in ReadingInputs :
                    \A k \in DOMAIN f : device.last_reading[k] = f[k]
              /\ device.last_reading = log[Len(log)]

\* A device that a check had marked offline accepted a reading and is online.
C12_Witness ==
    /\ last.op = "update_inverter_data"
    /\ last.result = OK
    /\ ~last.prior_online
    /\ devices[last.device_id].online_status
    /\ devices[last.device_id].last_reading.energy_produced = 5000

\* C13: update_inverter_data by an authorized provider, check_device_status,
\* get_hourly_performance and get_device_status, each for a device id that
\* is not registered, fail with "Device not found" and leave devices,
\* provider list and maintenance log as they were.
C13_NotFoundChangesNothing ==
    [][ ( /\ last'.device_id \in DeviceIds \ Registered
          /\ \/ last'.op \in {"check_device_status", "get_hourly_performance",
                              "get_device_status"}
             \/ /\ last'.op = "update_inverter_data"
                /\ is_authorized(authorized, last'.provider) )
           => /\ last'.result = ERR_NOT_FOUND
              /\ persisted' = persisted
              /\ DOMAIN devices' = Registered ]_vars

\* An authorized provider's reading for an unregistered device id was
\* rejected while another device is registered.
C13_Witness ==
    /\ last.op = "update_inverter_data"
    /\ last.result = ERR_NOT_FOUND
    /\ is_authorized(authorized, last.provider)
    /\ last.device_id \notin Registered
    /\ Registered # {}

\* C14: a registered device stays registered after every entry point
\* (initialize among them), and its record changes only by a reading
\* accepted for it or by a check of it.
C14_DeviceNeverDeleted ==
    [][ \A d \in Registered :
          /\ d \in DOMAIN devices'
          /\ devices'[d] # devices[d]
                => /\ last'.device_id = d
                   /\ last'.op \in {"update_inverter_data", "check_device_status"}
                   /\ last'.result = OK ]_vars

\* C15: authorize_provider called by an actor that is not on the allow-list
\* adds no one.  While the allow-list is empty no actor is on it, so no call
\* of authorize_provider may add an entry.
C15_OnlyProvidersAuthorize ==
    [][ (last'.op = "authorize_provider" /\ authorized = <<>>)
           => authorized' = <<>> ]_vars

\* C16: every registered device has rated_power > 0.
C16_RatedPowerPositive ==
    \A d \in Registered : devices[d].rated_power > 0

\* C17: the ledger timestamp never decreases; a device's last_ping never
\* decreases, never exceeds the current time (so now - last_ping does not
\* underflow), and changes only by a reading accepted for that device.
C17_LastPingMonotone ==
    [][ /\ now' >= now
        /\ \A d \in DOMAIN devices' : devices'[d].last_ping <= now'
        /\ \A d \in Registered \cap DOMAIN devices' :
              /\ devices[d].last_ping <= now
              /\ devices'[d].last_ping >= devices[d].last_ping
              /\ devices'[d].last_ping # devices[d].last_ping
                    => /\ last'.op = "update_inverter_data"
                       /\ last'.device_id = d
                       /\ last'.result = OK ]_vars

\* A device whose last_ping a reading had moved past its registration time
\* was checked and found stale at a later time, last_ping as the reading
\* left it.
C17_Witness ==
    /\ last.op = "check_device_status"
    /\ last.device_id \in Registered
    /\ Len(accepted[last.device_id]) = 1
    /\ devices[last.device_id].last_ping = accepted[last.device_id][1].timestamp
    /\ devices[last.device_id].last_ping > 0
    /\ now - devices[last.device_id].last_ping > 300
    /\ ~devices[last.device_id].online_status

\* C19: a registered device that is offline has now - last_ping > 300.
C19_OfflineImpliesStale ==
    \A d \in Registered :
        ~devices[d].online_status => now - devices[d].last_ping > 300

\* A device whose latest reading came at 300 was checked at 14701 and is
\* offline.
C19_Witness ==
    \E d \in Registered :
        /\ ~devices[d].online_status
        /\ Len(accepted[d]) = 1
        /\ devices[d].last_ping = 300
        /\ now = 14701

\* C20: every registered device's risk level is LOW, MEDIUM or HIGH, and a
\* device that is not operational has risk HIGH.
C20_NotOperationalIsHighRisk ==
    \A d \in Registered :
        /\ devices[d].risk_level \in {"LOW", "MEDIUM", "HIGH"}
        /\ ~devices[d].operational_status => devices[d].risk_level = "HIGH"

\* A device that is not operational reports an efficiency that would give
\* LOW, has risk HIGH, and a check has since marked it offline.
C20_Witness ==
    \E d \in Registered :
        /\ ~devices[d].operational_status
        /\ devices[d].last_reading.efficiency >= 90
        /\ devices[d].risk_level = "HIGH"
        /\ ~devices[d].online_status

\* C18: file_claim returns true only for a policy that exists, is active and
\* covers the claimed amount; that policy is then inactive, nothing else in
\* the policy store differs, and file_claim had not returned true on it
\* before.  When file_claim returns false the policy store and the stored
\* risk level are as they were.
C18_ClaimPaidAtMostOnce ==
    [][ policy_call'.op = "file_claim"
           => IF policy_call'.returned
              THEN \E i \in 1..Len(policies) :
                      /\ policies[i].policy_id = policy_call'.policy_id
                      /\ policies[i].is_active
                      /\ policies[i].coverage_amount >= policy_call'.claim_amount
                      /\ paid[i] = 0
                      /\ ~policies'[i].is_active
                      /\ policies' = [policies EXCEPT ![i].is_active = FALSE]
              ELSE /\ policies' = policies
                   /\ policy_risk_level' = policy_risk_level ]_vars

\* A claim within the coverage was refused on a policy that an earlier claim
\* had deactivated, while another policy is still active.
C18_Witness ==
    /\ policy_call.op = "file_claim"
    /\ policy_call.returned = FALSE
    /\ \E i \in 1..Len(policies) :
          /\ policies[i].policy_id = policy_call.policy_id
          /\ paid[i] = 1
          /\ ~policies[i].is_active
          /\ policy_call.claim_amount <= policies[i].coverage_amount
    /\ \E j \in 1..Len(policies) : policies[j].is_active

====
